---- MODULE Spec2Model ----
(***************************************************************************)
(* Model of pytest_fixture_tools/plugin.py: the fixture search order, the  *)
(* fixture resolution used for the fixture graph, the duplicate report and *)
(* the graph export.                                                       *)
(*                                                                         *)
(* Python strings are modelled as sequences of character codes, so that    *)
(* os.path.dirname, os.path.join, str.startswith, str.replace, string      *)
(* comparison and the unpacking of a string are computed as Python does.   *)
(***************************************************************************)
EXTENDS Integers, Sequences, FiniteSets, TLC

(***************************************************************************)
(* Bounds of the model.                                                    *)
(***************************************************************************)
\* longest list of fixture definitions of one name handed to _find_fixture_def
MaxDefs == 3
\* number of fixture definitions registered in a name2fixturedefs handed to a hook
MaxReg == 2
\* number of collected test items of a session
MaxItems == 2
\* longest tuple of fixture definitions the fixture manager returns for one item
MaxVisible == 2

(***************************************************************************)
(* Strings.                                                                *)
(***************************************************************************)
Slash == <<47>>  \* os.sep, "/"
Colon == <<58>>  \* ":"
Underscore == <<95>>  \* "_"
Dash == <<45>>  \* "-"
Dot == <<46>>  \* "."
EmptyStr == <<>>  \* ""

conftest_py == <<99, 111, 110, 102, 116, 101, 115, 116, 46, 112, 121>>  \* "conftest.py"
test_prefix == <<116, 101, 115, 116, 95>>  \* "test_"
request == <<114, 101, 113, 117, 101, 115, 116>>  \* "request"
func_args_key == <<102, 117, 110, 99, 95, 97, 114, 103, 115>>  \* "func_args"
fixture_graph == <<102, 105, 120, 116, 117, 114, 101, 45, 103, 114, 97, 112, 104>>  \* "fixture-graph"
dot_ext == <<46, 100, 111, 116>>  \* ".dot"

\* str.startswith
StartsWith(s, prefix) ==
    /\ Len(prefix) <= Len(s)
    /\ SubSeq(s, 1, Len(prefix)) = prefix

\* Python's < on str, and on tuples of integers: lexicographic by code point, a
\* proper prefix is smaller
StrLess(a, b) ==
    \E k \in 1..Len(b) :
        /\ \A i \in 1..(k - 1) : i <= Len(a) /\ a[i] = b[i]
        /\ (k > Len(a) \/ a[k] < b[k])

\* str.replace(old, new) for a one-character old
Replace(s, old, new) ==
    [i \in 1..Len(s) |-> IF <<s[i]>> = old THEN new[1] ELSE s[i]]

\* str.rstrip("/")
RECURSIVE RStripSlash(_)
RStripSlash(s) ==
    IF s # <<>> /\ <<s[Len(s)]>> = Slash
    THEN RStripSlash(SubSeq(s, 1, Len(s) - 1))
    ELSE s

\* str.rfind("/") + 1
RFindSlash(p) ==
    LET at == {i \in 1..Len(p) : <<p[i]>> = Slash}
    IN IF at = {} THEN 0 ELSE CHOOSE i \in at : \A j \in at : j <= i

\* posixpath.dirname
dirname(p) ==
    LET head == SubSeq(p, 1, RFindSlash(p))
    IN IF head # <<>> /\ \E i \in 1..Len(head) : <<head[i]>> # Slash
       THEN RStripSlash(head)
       ELSE head

\* posixpath.basename
basename(p) == SubSeq(p, RFindSlash(p) + 1, Len(p))

\* posixpath.join of two components
join(a, b) ==
    IF StartsWith(b, Slash) THEN b
    ELSE IF a = <<>> \/ <<a[Len(a)]>> = Slash THEN a \o b
    ELSE a \o Slash \o b

\* sorted(s, key=...): a stable sort; keys[i] is the key of s[i], a string or a
\* one-element tuple holding an integer
StableSort(s, keys) ==
    LET n == Len(s)
        pos(i) == Cardinality({j \in 1..n : StrLess(keys[j], keys[i])})
                  + Cardinality({j \in 1..(i - 1) : keys[j] = keys[i]})
                  + 1
    IN [k \in 1..n |-> s[CHOOSE i \in 1..n : pos(i) = k]]

(***************************************************************************)
(* Fixture definitions: fixture_def.func is identified with the definition,*)
(* path is inspect.getfile(fixture_def.func).                              *)
(***************************************************************************)
\* return value None of _find_fixture_def
NoneDef == [func |-> 0, path |-> EmptyStr, argnames |-> <<>>]

\* sys.maxsize (of a 32-bit build): larger than every index of a search order
maxsize == 2147483647

\* _get_func_path: the file of the function, cached per save_fixture_graph call
get_func_path(fixture_def) == fixture_def.path

RECURSIVE _get_fixture_search_order(_)
_get_fixture_search_order(func_path) ==
    LET func_dir == dirname(func_path)
    IN IF func_dir = func_path
       THEN <<>>
       ELSE <<join(func_dir, conftest_py)>> \o _get_fixture_search_order(func_dir)

\* list.index, 0-based; maxsize stands for the ValueError branch of sort_key
IndexOrMaxsize(search_order, x) ==
    LET at == {i \in 1..Len(search_order) : search_order[i] = x}
    IN IF at = {} THEN maxsize ELSE (CHOOSE i \in at : \A j \in at : i <= j) - 1

\* the search order _find_fixture_def sorts by
SearchOrderOf(source_fixture_name, func_path, fixture_name) ==
    LET search_order == _get_fixture_search_order(dirname(func_path))
    IN IF source_fixture_name # fixture_name
       THEN <<func_path>> \o search_order
       ELSE search_order

sort_key(search_order, fixture_def) ==
    IndexOrMaxsize(search_order, get_func_path(fixture_def))

\* mutant of _find_fixture_def: of the definitions with the smallest key the
\* last of the list is returned, as a sort that is not stable may do
_find_fixture_def_last_of_ties(source_fixture_name, func_path, fixture_name, name2fixturedefs) ==
    LET search_order == SearchOrderOf(source_fixture_name, func_path, fixture_name)
        defs == name2fixturedefs[fixture_name]
        Smallest(k) == \A j \in 1..Len(defs) :
                           sort_key(search_order, defs[j]) >= sort_key(search_order, defs[k])
    IN IF fixture_name \notin DOMAIN name2fixturedefs
       THEN NoneDef
       ELSE IF defs = <<>>
       THEN NoneDef
       ELSE defs[CHOOSE k \in 1..Len(defs) :
                     Smallest(k) /\ \A j \in (k + 1)..Len(defs) : ~Smallest(j)]

\* name2fixturedefs is a function from fixture names to lists of definitions
_find_fixture_def(source_fixture_name, func_path, fixture_name, name2fixturedefs) ==
    LET search_order == SearchOrderOf(source_fixture_name, func_path, fixture_name)
        target_fixture_defs == name2fixturedefs[fixture_name]
    IN IF fixture_name \notin DOMAIN name2fixturedefs
       THEN NoneDef
       ELSE IF target_fixture_defs = <<>>
       THEN NoneDef
       ELSE StableSort(target_fixture_defs,
                       [k \in 1..Len(target_fixture_defs) |->
                           <<sort_key(search_order, target_fixture_defs[k])>>])[1]

(***************************************************************************)
(* The fixture graph.                                                      *)
(***************************************************************************)
\* os.path.relpath(func_path, cwd) for a normalised func_path below cwd
relpath(func_path, cwd) == SubSeq(func_path, Len(cwd) + 1, Len(func_path))

_get_cluster_name(func_path, cwd) ==
    IF StartsWith(func_path, cwd) THEN relpath(func_path, cwd) ELSE func_path

\* the pair (cluster name, fixture name); ('', '') for None
_get_fixture_node_name(fixture_name, fixture_def, cwd) ==
    IF fixture_def = NoneDef
    THEN <<EmptyStr, EmptyStr>>
    ELSE <<_get_cluster_name(get_func_path(fixture_def), cwd), fixture_name>>

\* the keys (cluster name, fixture name) of data, without the entry of func_args
DataKeys(name2fixturedefs, cwd) ==
    UNION {{<<_get_cluster_name(get_func_path(name2fixturedefs[n][i]), cwd), n>> :
               i \in 1..Len(name2fixturedefs[n])} :
           n \in DOMAIN name2fixturedefs \ {request}}

\* data[cluster_name][fixture_name][0]: the entry of the last definition of the
\* name in that cluster, a later assignment overwrites an earlier one
DataDeps(name2fixturedefs, cwd, key) ==
    LET fixture_defs == name2fixturedefs[key[2]]
        at == {i \in 1..Len(fixture_defs) :
                 _get_cluster_name(get_func_path(fixture_defs[i]), cwd) = key[1]}
        fixture_def == fixture_defs[CHOOSE i \in at : \A j \in at : j <= i]
        func_path == get_func_path(fixture_def)
    IN [k \in 1..Len(fixture_def.argnames) |->
          _get_fixture_node_name(
              fixture_def.argnames[k],
              _find_fixture_def(key[2], func_path, fixture_def.argnames[k], name2fixturedefs),
              cwd)]

\* pydot.Node(func_path + "/" + name)
NodeId(cluster, name) == cluster \o Slash \o name

RootId == NodeId(EmptyStr, func_args_key)

\* the nodes added to the clusters of the graph
GraphNodes(name2fixturedefs, func_args, cwd) ==
    {[id |-> NodeId(key[1], key[2]), cluster |-> key[1], label |-> key[2], fillcolor |-> "green"] :
        key \in DataKeys(name2fixturedefs, cwd)}
    \cup (IF func_args # <<>>
          THEN {[id |-> RootId, cluster |-> EmptyStr, label |-> func_args_key, fillcolor |-> "red"]}
          ELSE {})

\* the edges of the entries of the fixture definitions; pairs with an empty
\* dest_name are skipped
FixtureEdges(name2fixturedefs, cwd) ==
    UNION {LET deps == DataDeps(name2fixturedefs, cwd, key)
           IN {<<NodeId(key[1], key[2]), NodeId(deps[k][1], deps[k][2])>> :
                  k \in {j \in 1..Len(deps) : deps[j][2] # EmptyStr}} :
           key \in DataKeys(name2fixturedefs, cwd)}

\* "for dest_cluster, dest_name in depended_list" over the entry of func_args,
\* whose depended_list is the tuple of argument names: each name, a string, is
\* unpacked into two characters
FuncArgsUnpackable(func_args) == \A k \in 1..Len(func_args) : Len(func_args[k]) = 2

FuncArgsEdges(func_args) ==
    {<<RootId, NodeId(<<func_args[k][1]>>, <<func_args[k][2]>>)>> : k \in 1..Len(func_args)}

GraphEdges(name2fixturedefs, func_args, cwd) ==
    FixtureEdges(name2fixturedefs, cwd)
    \cup (IF func_args # <<>> THEN FuncArgsEdges(func_args) ELSE {})

(***************************************************************************)
(* The export of the graph.                                                *)
(***************************************************************************)
artifacts == <<97, 114, 116, 105, 102, 97, 99, 116, 115>>  \* default of --fixture-graph-output-dir
png == <<112, 110, 103>>  \* default of --fixture-graph-output-type

\* mkdir_recursive: os.makedirs may succeed or fail with an errno; EEXIST on a
\* directory is passed over, every other OSError is raised again
mkdir_recursive_raises(makedirs) == makedirs \notin {"ok", "EEXIST_isdir"}

TwLine(msg, arg) == [msg |-> msg, arg |-> arg]

\* mutant of ExportTw: the "created" line of the rendered file is printed
\* whatever the renderer did
ExportTw_created_always(filename, output_type, render) ==
    <<TwLine("line", EmptyStr),
      TwLine("sep", fixture_graph),
      TwLine("created", filename \o dot_ext),
      TwLine("created", filename \o Dot \o output_type)>>
    \o (IF render = "ok"
        THEN <<>>
        ELSE <<TwLine("graphvis wasn't found in PATH", EmptyStr),
               TwLine("You can convert it to a PNG using: dot -Tpng", filename)>>)

\* lines 262-275: what is written to the terminal, given the renderer's outcome
ExportTw(filename, output_type, render) ==
    <<TwLine("line", EmptyStr),
      TwLine("sep", fixture_graph),
      TwLine("created", filename \o dot_ext)>>
    \o (IF render = "ok"
        THEN <<TwLine("created", filename \o Dot \o output_type)>>
        ELSE <<TwLine("graphvis wasn't found in PATH", EmptyStr),
               TwLine("You can convert it to a PNG using: dot -Tpng", filename)>>)

\* lines 262-275: the file operations in the order they are made
ExportIo(log_dir, filename, output_type) ==
    <<[op |-> "makedirs", path |-> log_dir],
      [op |-> "write", path |-> filename \o dot_ext],
      [op |-> "render", path |-> filename \o Dot \o output_type]>>

\* the files that exist after the export
ExportWritten(filename, output_type, render) ==
    {filename \o dot_ext} \cup (IF render = "ok" THEN {filename \o Dot \o output_type} ELSE {})

\* the exception that leaves the export, "none" when it returns
ExportRaised(render) == "none"

NoGraph(raised, io) ==
    [nodes |-> {}, edges |-> {}, raised |-> raised, tw |-> <<>>, io |-> io, written |-> {}]

\* env: the current directory and the outcomes of os.makedirs and of the renderer
save_fixture_graph(name2fixturedefs, filename, func_args, env) ==
    LET cwd == env.getcwd \o Slash
        log_dir == artifacts
        output_type == png
        path == join(log_dir, filename)
    IN IF func_args # <<>> /\ ~FuncArgsUnpackable(func_args)
       THEN NoGraph("ValueError", <<>>)
       ELSE IF mkdir_recursive_raises(env.makedirs)
       THEN NoGraph("OSError", <<[op |-> "makedirs", path |-> log_dir]>>)
       ELSE [nodes |-> GraphNodes(name2fixturedefs, func_args, cwd),
             edges |-> GraphEdges(name2fixturedefs, func_args, cwd),
             raised |-> ExportRaised(env.render),
             tw |-> ExportTw(path, output_type, env.render),
             io |-> ExportIo(log_dir, path, output_type),
             written |-> ExportWritten(path, output_type, env.render)]

(***************************************************************************)
(* The duplicate report.                                                   *)
(***************************************************************************)
\* the module-level verbose
verbose == 1

\* the tuple built at lines 106-111; bestrel is
\* curdir.bestrelpath(getlocation(fixturedef.func, curdir))
FixtureTuple(fixturedef) ==
    [baseid_len |-> Len(fixturedef.baseid),
     module |-> fixturedef.module,
     bestrel |-> fixturedef.loc,
     fixturedef |-> fixturedef.func]

\* mutant of assert_raises: "assert fixturedefs", which fails on an empty tuple too
assert_raises_on_empty(fixturedefs) == fixturedefs.is_none \/ fixturedefs.defs = <<>>

\* "assert fixturedefs is not None"
assert_raises(fixturedefs) == fixturedefs.is_none

\* mutant of NotYetAvailable: the lists are compared by fixture[3], the definition
NotYetAvailable_by_fixturedef(fixture, list) ==
    \A k \in 1..Len(list) : list[k].fixturedef # fixture.fixturedef

\* "if fixture[2] not in [f[2] for f in available[argname]]"
NotYetAvailable(fixture, list) ==
    \A k \in 1..Len(list) : list[k].bestrel # fixture.bestrel

\* available[argname] after the fixture tuples of stream were offered in order
RECURSIVE AppendNew(_, _)
AppendNew(list, stream) ==
    IF stream = <<>>
    THEN list
    ELSE AppendNew(IF NotYetAvailable(Head(stream), list)
                   THEN Append(list, Head(stream))
                   ELSE list,
                   Tail(stream))

\* the fixture tuples of argname in the order the loops over session.items and
\* over fixturedefs meet them; lookup[i][argname] is
\* fm.getfixturedefs(argname, item.nodeid) of the i-th item
RECURSIVE FixtureStream(_, _, _)
FixtureStream(lookup, argname, i) ==
    IF i > Len(lookup)
    THEN <<>>
    ELSE [k \in 1..Len(lookup[i][argname].defs) |-> FixtureTuple(lookup[i][argname].defs[k])]
         \o FixtureStream(lookup, argname, i + 1)

\* key=lambda key: key[2]
Bestrels(fixtures) == [k \in 1..Len(fixtures) |-> fixtures[k].bestrel]

\* the loop of lines 69-81 over the sorted fixtures
RECURSIVE PrintSorted(_, _, _)
PrintSorted(argname, sorted, previous_argname) ==
    IF sorted = <<>>
    THEN <<>>
    ELSE (IF previous_argname # argname
          THEN <<TwLine("line", EmptyStr), TwLine("sep", argname)>>
          ELSE <<>>)
         \o (IF verbose <= 0 /\ <<argname[1]>> = Underscore
             THEN <<>>
             ELSE <<TwLine("line", Head(sorted).bestrel)>>)
         \o PrintSorted(argname, Tail(sorted), argname)

\* mutant of print_duplicates: the fixtures are sorted by key[0]
print_duplicates_by_baseid(argname, fixtures, previous_argname) ==
    IF Len(fixtures) > 1
    THEN PrintSorted(argname, StableSort(fixtures, [k \in 1..Len(fixtures) |-> <<fixtures[k].baseid_len>>]), previous_argname)
    ELSE <<>>

\* mutant of print_duplicates: a list of one fixture is printed too
print_duplicates_of_one(argname, fixtures, previous_argname) ==
    IF Len(fixtures) > 0
    THEN PrintSorted(argname, StableSort(fixtures, Bestrels(fixtures)), previous_argname)
    ELSE <<>>

\* lines 64-81; the lines written to the terminal
print_duplicates(argname, fixtures, previous_argname) ==
    IF Len(fixtures) > 1
    THEN PrintSorted(argname, StableSort(fixtures, Bestrels(fixtures)), previous_argname)
    ELSE <<>>

\* lines 93-95: the names the loops go over, in order
arg2fixturedefs(fixture_name, registered) ==
    IF fixture_name # EmptyStr /\ \E k \in 1..Len(registered) : registered[k] = fixture_name
    THEN <<fixture_name>>
    ELSE registered

\* lines 115-123; available is a function from its keys to their lists and
\* keys lists them in the order they were inserted
PrintAvailable(fixture_name, available, keys) ==
    IF fixture_name # EmptyStr
    THEN print_duplicates(fixture_name,
                          IF fixture_name \in DOMAIN available
                          THEN available[fixture_name] ELSE <<>>,
                          EmptyStr)
    ELSE LET items == StableSort(keys, keys)
             RECURSIVE All(_)
             All(k) ==
                 IF k > Len(items)
                 THEN <<>>
                 ELSE print_duplicates(items[k], available[items[k]],
                                       IF k = 1 THEN EmptyStr ELSE items[k - 1])
                      \o All(k + 1)
         IN All(1)

\* the index of the first item for which getfixturedefs returns definitions of
\* argname, 0 when there is none: available[argname] is first read there
FirstMet(lookup, argname) ==
    LET at == {i \in 1..Len(lookup) : lookup[i][argname].defs # <<>>}
    IN IF at = {} THEN 0 ELSE CHOOSE i \in at : \A j \in at : i <= j

\* registered: the keys of fm._arg2fixturedefs in order
_show_fixture_duplicates_main(fixture_name, registered, lookup) ==
    LET names == arg2fixturedefs(fixture_name, registered)
        met == SelectSeq(names, LAMBDA argname : FirstMet(lookup, argname) > 0)
        keys == StableSort(met, [k \in 1..Len(met) |-> <<FirstMet(lookup, met[k])>>])
        available == [argname \in {met[k] : k \in 1..Len(met)} |->
                         AppendNew(<<>>, FixtureStream(lookup, argname, 1))]
    IN IF \E i \in 1..Len(lookup) : \E k \in 1..Len(names) : assert_raises(lookup[i][names[k]])
       THEN [available |-> <<>>, tw |-> <<>>, raised |-> "AssertionError"]
       ELSE [available |-> available,
             tw |-> PrintAvailable(fixture_name, available, keys),
             raised |-> "none"]

(***************************************************************************)
(* Inputs of the hooks.                                                    *)
(***************************************************************************)
F_root_conftest == <<47, 114, 111, 111, 116, 47, 99, 111, 110, 102, 116, 101, 115, 116, 46, 112, 121>>  \* "/root/conftest.py"
F_api_conftest == <<47, 114, 111, 111, 116, 47, 97, 112, 105, 47, 99, 111, 110, 102, 116, 101, 115, 116, 46, 112, 121>>  \* "/root/api/conftest.py"
F_api_test == <<47, 114, 111, 111, 116, 47, 97, 112, 105, 47, 116, 101, 115, 116, 95, 120, 46, 112, 121>>  \* "/root/api/test_x.py"
F_v1_conftest == <<47, 114, 111, 111, 116, 47, 97, 112, 105, 47, 118, 49, 47, 99, 111, 110, 102, 116, 101, 115, 116, 46, 112, 121>>  \* "/root/api/v1/conftest.py"
F_v1_test == <<47, 114, 111, 111, 116, 47, 97, 112, 105, 47, 118, 49, 47, 116, 101, 115, 116, 95, 121, 46, 112, 121>>  \* "/root/api/v1/test_y.py"
F_plugin_a == <<47, 111, 112, 116, 47, 112, 108, 117, 103, 47, 97, 46, 112, 121>>  \* "/opt/plug/a.py"
F_plugin_b == <<47, 111, 112, 116, 47, 112, 108, 117, 103, 47, 98, 46, 112, 121>>  \* "/opt/plug/b.py"
db == <<100, 98>>  \* "db"
client == <<99, 108, 105, 101, 110, 116>>  \* "client"
Cwd_root == <<47, 114, 111, 111, 116>>  \* "/root"
L_conftest_1 == <<99, 111, 110, 102, 116, 101, 115, 116, 46, 112, 121, 58, 49>>  \* "conftest.py:1"
L_api_conftest_1 == <<97, 112, 105, 47, 99, 111, 110, 102, 116, 101, 115, 116, 46, 112, 121, 58, 49>>  \* "api/conftest.py:1"
L_api_conftest_9 == <<97, 112, 105, 47, 99, 111, 110, 102, 116, 101, 115, 116, 46, 112, 121, 58, 57>>  \* "api/conftest.py:9"
B_api == <<97, 112, 105>>  \* "api"
M_conftest == <<99, 111, 110, 102, 116, 101, 115, 116>>  \* "conftest"
nodeid_x == <<97, 112, 105, 47, 116, 101, 115, 116, 95, 120, 46, 112, 121, 58, 58, 116, 101, 115, 116, 95, 97>>  \* "api/test_x.py::test_a"

\* all sequences over S of length 0..n
SeqsUpTo(S, n) == UNION {[1..m -> S] : m \in 0..n}

\* all sequences over S of length 0..n without a repeated element
DistinctSeqsUpTo(S, n) ==
    {q \in SeqsUpTo(S, n) : \A i, j \in 1..Len(q) : i # j => q[i] # q[j]}

\* the files fixtures are defined in
FindFiles ==
    {F_root_conftest, F_api_conftest, F_api_test, F_v1_conftest, F_v1_test,
     F_plugin_a, F_plugin_b}

\* the lists of definitions of one name: the k-th is defined in paths[k]
DefsIn(paths) == [k \in 1..Len(paths) |-> [func |-> k, path |-> paths[k], argnames |-> <<>>]]

\* the name2fixturedefs handed to _find_fixture_def: without fixture_name, or
\* with a list of at most MaxDefs definitions of it
FindRegistries(fixture_name) ==
    {<<>>} \cup {[n \in {fixture_name} |-> DefsIn(paths)] : paths \in SeqsUpTo(FindFiles, MaxDefs)}

GraphFiles == {F_root_conftest, F_api_conftest, F_api_test}
GraphArgnames == {<<>>, <<db>>, <<request>>}

\* a registration: fixture name, file and argument names of a definition; a
\* definition of "request" comes from a plugin outside the current directory
Registration ==
    ({db, client} \X GraphFiles \X GraphArgnames) \cup {<<request, F_plugin_a, <<>>>>}

Registrations == SeqsUpTo(Registration, MaxReg)

\* the name2fixturedefs the fixture manager holds after the registrations
RegistryOf(regs) ==
    [n \in {regs[i][1] : i \in 1..Len(regs)} |->
        LET at == SelectSeq([i \in 1..Len(regs) |-> i], LAMBDA i : regs[i][1] = n)
        IN [k \in 1..Len(at) |->
              [func |-> at[k], path |-> regs[at[k]][2], argnames |-> regs[at[k]][3]]]]

\* the current directory and the outcomes of os.makedirs and of the renderer
Envs ==
    {[getcwd |-> Cwd_root, makedirs |-> m, render |-> r] :
        <<m, r>> \in {<<"ok", "ok">>, <<"ok", "failed">>, <<"EEXIST_isdir", "ok">>,
                      <<"EACCES", "ok">>}}

\* item._fixtureinfo.argnames
ItemArgnames == {<<>>, <<db>>, <<client>>}

\* the definitions of db and of client the fixture manager knows: two of db
\* are the same function, imported into a second conftest.py
DupDefs(argname) ==
    IF argname = db
    THEN {[func |-> 1, baseid |-> EmptyStr, module |-> M_conftest, loc |-> L_conftest_1],
          [func |-> 2, baseid |-> B_api, module |-> M_conftest, loc |-> L_api_conftest_1],
          [func |-> 3, baseid |-> B_api, module |-> M_conftest, loc |-> L_conftest_1]}
    ELSE {[func |-> 4, baseid |-> B_api, module |-> M_conftest, loc |-> L_api_conftest_9]}

\* what fm.getfixturedefs may return: None, or a tuple of definitions
LookupResults(argname) ==
    {[is_none |-> TRUE, defs |-> <<>>]}
    \cup {[is_none |-> FALSE, defs |-> q] : q \in DistinctSeqsUpTo(DupDefs(argname), MaxVisible)}

\* per item, the result of fm.getfixturedefs for each of names
Lookups(names) ==
    LET S == {names[k] : k \in 1..Len(names)}
        PerItem == {[n \in S |-> IF n = db THEN a ELSE b] :
                       a \in LookupResults(db), b \in LookupResults(client)}
    IN SeqsUpTo(PerItem, MaxItems)

(***************************************************************************)
(* State: one call of a hook or function (op, with its inputs in call) and *)
(* what it left. Every call starts from the state "start": the plugin      *)
(* keeps nothing from one call to the next.                                *)
(***************************************************************************)
VARIABLES op, call, found, nodes, edges, raised, tw, io, written, available

vars == <<op, call, found, nodes, edges, raised, tw, io, written, available>>

Init ==
    /\ op = "start"
    /\ call = <<>>
    /\ found = NoneDef
    /\ nodes = {}
    /\ edges = {}
    /\ raised = "none"
    /\ tw = <<>>
    /\ io = <<>>
    /\ written = {}
    /\ available = <<>>

\* a direct call of _find_fixture_def
FindFixtureDef ==
    /\ op = "start"
    /\ \E func_path \in FindFiles, source_fixture_name \in {db, client} :
       \E name2fixturedefs \in FindRegistries(db) :
        /\ op' = "_find_fixture_def"
        /\ call' = [source_fixture_name |-> source_fixture_name,
                    func_path |-> func_path,
                    fixture_name |-> db,
                    name2fixturedefs |-> name2fixturedefs]
        /\ found' = _find_fixture_def(source_fixture_name, func_path, db, name2fixturedefs)
        /\ nodes' = {} /\ edges' = {} /\ raised' = "none" /\ tw' = <<>>
        /\ io' = <<>> /\ written' = {} /\ available' = <<>>

\* what a call of save_fixture_graph leaves
Saved(r) ==
    /\ found' = NoneDef
    /\ nodes' = r.nodes
    /\ edges' = r.edges
    /\ raised' = r.raised
    /\ tw' = r.tw
    /\ io' = r.io
    /\ written' = r.written
    /\ available' = <<>>

\* a hook that returns without doing anything
Nothing ==
    /\ found' = NoneDef /\ nodes' = {} /\ edges' = {} /\ raised' = "none" /\ tw' = <<>>
    /\ io' = <<>> /\ written' = {} /\ available' = <<>>

\* fixture_def.func.__module__.split('.')[-1].startswith("test_"): the last
\* component of the module name is the file's name
InTestModule(fixture_def) == StartsWith(basename(get_func_path(fixture_def)), test_prefix)

\* the dictionary comprehension of lines 130-137
WithoutTestModules(name2fixturedefs) ==
    [name \in DOMAIN name2fixturedefs |->
        SelectSeq(name2fixturedefs[name], LAMBDA fixture_def : ~InTestModule(fixture_def))]

pytest_collection_modifyitems ==
    /\ op = "start"
    /\ \/ /\ op' = "pytest_collection_modifyitems"
          /\ call' = [fixture_graph |-> FALSE]
          /\ Nothing
       \/ \E regs \in Registrations, env \in Envs :
           LET name2fixturedefs == WithoutTestModules(RegistryOf(regs))
           IN /\ op' = "pytest_collection_modifyitems"
              /\ call' = [fixture_graph |-> TRUE,
                          name2fixturedefs |-> name2fixturedefs,
                          func_args |-> <<>>,
                          filename |-> fixture_graph,
                          env |-> env]
              /\ Saved(save_fixture_graph(name2fixturedefs, fixture_graph, <<>>, env))

\* "fixture-graph-{}".format(item._nodeid.replace(":", "_").replace("/", "-"))
ItemFilename(nodeid) ==
    fixture_graph \o Dash \o Replace(Replace(nodeid, Colon, Underscore), Slash, Dash)

pytest_runtest_setup ==
    /\ op = "start"
    /\ \/ \E fixture_graph_option, has_fixtureinfo \in BOOLEAN :
           /\ ~(fixture_graph_option /\ has_fixtureinfo)
           /\ op' = "pytest_runtest_setup"
           /\ call' = [fixture_graph |-> fixture_graph_option, has_fixtureinfo |-> has_fixtureinfo]
           /\ Nothing
       \/ \E regs \in Registrations, argnames \in ItemArgnames, env \in Envs :
           LET name2fixturedefs == RegistryOf(regs)
               filename == ItemFilename(nodeid_x)
           IN /\ op' = "pytest_runtest_setup"
              /\ call' = [fixture_graph |-> TRUE,
                          has_fixtureinfo |-> TRUE,
                          name2fixturedefs |-> name2fixturedefs,
                          func_args |-> argnames,
                          filename |-> filename,
                          env |-> env]
              /\ Saved(save_fixture_graph(name2fixturedefs, filename, argnames, env))

\* the registered fixture names, in the order of fm._arg2fixturedefs
RegisteredNames == {<<db>>, <<db, client>>}

pytest_cmdline_main ==
    /\ op = "start"
    /\ \/ /\ op' = "pytest_cmdline_main"
          /\ call' = [show_fixture_duplicates |-> FALSE]
          /\ Nothing
       \/ \E fixture_name \in {EmptyStr, db, client}, registered \in RegisteredNames :
          \E lookup \in Lookups(arg2fixturedefs(fixture_name, registered)) :
           LET r == _show_fixture_duplicates_main(fixture_name, registered, lookup)
           IN /\ op' = "pytest_cmdline_main"
              /\ call' = [show_fixture_duplicates |-> TRUE,
                          fixture_name |-> fixture_name,
                          registered |-> registered,
                          lookup |-> lookup]
              /\ available' = r.available
              /\ tw' = r.tw
              /\ raised' = r.raised
              /\ found' = NoneDef /\ nodes' = {} /\ edges' = {} /\ io' = <<>> /\ written' = {}

Next ==
    \/ FindFixtureDef
    \/ pytest_collection_modifyitems
    \/ pytest_runtest_setup
    \/ pytest_cmdline_main

Spec == Init /\ [][Next]_vars

\* the calls of _find_fixture_def alone
SpecFind == Init /\ [][FindFixtureDef]_vars

\* the two hooks that save a fixture graph
SpecGraph == Init /\ [][pytest_collection_modifyitems \/ pytest_runtest_setup]_vars

\* the duplicate report
SpecDuplicates == Init /\ [][pytest_cmdline_main]_vars

(***************************************************************************)
(* Properties of _find_fixture_def.                                        *)
(***************************************************************************)
IsFind == op = "_find_fixture_def"

\* the definitions of the wanted name handed to the call, <<>> without the name
Candidates ==
    IF call.fixture_name \in DOMAIN call.name2fixturedefs
    THEN call.name2fixturedefs[call.fixture_name]
    ELSE <<>>

CandidatePaths == {Candidates[k].path : k \in 1..Len(Candidates)}

\* conftest.py of the consumer's own directory, then of each parent directory
EnclosingConftests(func_path) == _get_fixture_search_order(func_path)

\* the first element of order that is the path of a candidate
FirstHit(order) ==
    order[CHOOSE i \in 1..Len(order) :
              /\ order[i] \in CandidatePaths
              /\ \A j \in 1..(i - 1) : order[j] \notin CandidatePaths]

\* C1: when the requesting name differs from the wanted name, the candidate in
\* the consumer's own file is returned if there is one, otherwise the candidate
\* in the conftest.py of the nearest enclosing directory, starting with the
\* consumer's own directory, for every order of the candidates.
C1_OverridePrecedence ==
    (/\ IsFind
     /\ call.source_fixture_name # call.fixture_name
     /\ \E p \in CandidatePaths :
            p = call.func_path \/ \E i \in 1..Len(EnclosingConftests(call.func_path)) :
                                      EnclosingConftests(call.func_path)[i] = p)
    => found.path = FirstHit(<<call.func_path>> \o EnclosingConftests(call.func_path))

\* C2: when a definition at X depends on its own name and another definition of
\* the name is in a conftest.py of the directory of X or of a parent directory,
\* at Y, the definition at Y is returned and never the one at X, for both orders
\* of the two candidates.
C2_SelfOverride ==
    (/\ IsFind
     /\ call.source_fixture_name = call.fixture_name
     /\ Len(Candidates) = 2
     /\ call.func_path \in CandidatePaths
     /\ \E y \in CandidatePaths \ {call.func_path} :
            \E i \in 1..Len(EnclosingConftests(call.func_path)) :
                EnclosingConftests(call.func_path)[i] = y)
    => /\ found # NoneDef
       /\ found.path # call.func_path
       /\ found.path \in CandidatePaths

\* the key the call sorts the k-th candidate by
RankOf(k) ==
    sort_key(SearchOrderOf(call.source_fixture_name, call.func_path, call.fixture_name),
             Candidates[k])

\* C9: candidates whose file is not in the search order rank last and keep the
\* order of the list: a candidate outside the search order is returned only when
\* no candidate is inside it, and then it is the first of the list; among
\* candidates of equal rank the earliest of the list is returned.
C9_Stability ==
    (IsFind /\ Candidates # <<>>)
    => /\ (\A k \in 1..Len(Candidates) : RankOf(k) = maxsize) => found = Candidates[1]
       /\ (\E k \in 1..Len(Candidates) : RankOf(k) # maxsize)
              => \E k \in 1..Len(Candidates) : found = Candidates[k] /\ RankOf(k) # maxsize
       /\ \E k \in 1..Len(Candidates) :
              /\ found = Candidates[k]
              /\ \A j \in 1..(k - 1) : RankOf(j) > RankOf(k)
              /\ \A j \in 1..Len(Candidates) : RankOf(j) >= RankOf(k)

\* C9 happens: two candidates in different files, none in the search order, and
\* the first of the list was returned
C9_Witness ==
    /\ IsFind
    /\ Len(Candidates) >= 2
    /\ \A k \in 1..Len(Candidates) : RankOf(k) = maxsize
    /\ Candidates[1].path # Candidates[2].path
    /\ found = Candidates[1]

(***************************************************************************)
(* Properties of the duplicate report.                                     *)
(***************************************************************************)
\* the duplicate report ran
IsReport == op = "pytest_cmdline_main" /\ call.show_fixture_duplicates

\* the names the report looked up for every item
Processed ==
    LET names == arg2fixturedefs(call.fixture_name, call.registered)
    IN {names[k] : k \in 1..Len(names)}

\* the list accumulated for a name, <<>> when the name was never met
AvailableOf(argname) ==
    IF argname \in DOMAIN available THEN available[argname] ELSE <<>>

\* a line of the terminal that names a member of a group
IsMember(i) == tw[i].msg = "line" /\ tw[i].arg # EmptyStr

\* the lines i < j belong to the same group: no header between them
SameGroup(i, j) == \A k \in i..j : tw[k].msg # "sep"

\* the header of the group of argname was printed
HasHeader(argname) == \E i \in 1..Len(tw) : tw[i] = TwLine("sep", argname)

\* the member lines printed under the header of argname
GroupLines(argname) ==
    LET h == CHOOSE i \in 1..Len(tw) : tw[i] = TwLine("sep", argname)
        IsIn(i) == i > h /\ IsMember(i) /\ SameGroup(h + 1, i)
    IN SelectSeq([i \in 1..Len(tw) |-> i], IsIn)

\* the number of directories in front of the file of a location
Depth(loc) == Cardinality({i \in 1..Len(loc) : <<loc[i]>> = Slash})

\* C3 as stated: the members of a group are printed in ascending order of
\* (depth of the location, location string), shallower locations first.
C3_DepthOrdering ==
    (IsReport /\ raised = "none")
    => \A i, j \in 1..Len(tw) :
           (i < j /\ IsMember(i) /\ IsMember(j) /\ SameGroup(i, j))
           => \/ Depth(tw[i].arg) < Depth(tw[j].arg)
              \/ Depth(tw[i].arg) = Depth(tw[j].arg) /\ ~StrLess(tw[j].arg, tw[i].arg)

\* C3 as amended: the members of a group are printed in ascending order of the
\* location string alone, whatever the depth of the locations.
C3_LocationOrdering ==
    (IsReport /\ raised = "none")
    => \A i, j \in 1..Len(tw) :
           (i < j /\ IsMember(i) /\ IsMember(j) /\ SameGroup(i, j))
           => StrLess(tw[i].arg, tw[j].arg)

\* C3 happens: db is defined in conftest.py and in api/conftest.py, and the
\* deeper api/conftest.py is printed first
C3_Witness ==
    /\ IsReport
    /\ raised = "none"
    /\ Len(AvailableOf(db)) = 2
    /\ HasHeader(db)
    /\ \E i \in 1..Len(tw) :
           /\ i < Len(tw)
           /\ tw[i] = TwLine("line", L_api_conftest_1)
           /\ tw[i + 1] = TwLine("line", L_conftest_1)

\* C4 as stated: with the filter option naming a registered name, the group of
\* that name is printed, header and one line per member, also when it has one
\* member.
C4_FilterAlwaysReports ==
    (/\ IsReport
     /\ raised = "none"
     /\ call.fixture_name # EmptyStr
     /\ call.fixture_name \in Processed
     /\ Len(AvailableOf(call.fixture_name)) >= 1)
    => /\ HasHeader(call.fixture_name)
       /\ Len(GroupLines(call.fixture_name)) = Len(AvailableOf(call.fixture_name))

\* C4 as amended: with and without the filter option a group is printed exactly
\* when it has more than one member (and, with the filter, is the group of the
\* name given), with its header once and one line per member.
C4_ReportedIffDuplicated ==
    (IsReport /\ raised = "none")
    => \A argname \in {db, client} :
           /\ HasHeader(argname)
                <=> /\ Len(AvailableOf(argname)) > 1
                    /\ call.fixture_name \in {EmptyStr, argname}
           /\ HasHeader(argname)
                => /\ Len(GroupLines(argname)) = Len(AvailableOf(argname))
                   /\ Cardinality({i \in 1..Len(tw) : tw[i] = TwLine("sep", argname)}) = 1

\* C4 happens: the filter names a registered name whose group has exactly one
\* member, and nothing is printed
C4_Witness ==
    /\ IsReport
    /\ raised = "none"
    /\ call.fixture_name = db
    /\ db \in Processed
    /\ Len(AvailableOf(db)) = 1
    /\ tw = <<>>

\* the locations of the definitions of argname that getfixturedefs returned
\* for some item
VisibleLocs(argname) ==
    UNION {{call.lookup[i][argname].defs[k].loc : k \in 1..Len(call.lookup[i][argname].defs)} :
           i \in 1..Len(call.lookup)}

\* the definition at loc that the loops meet first: the earliest item, and in
\* it the earliest definition
FirstSeen(argname, loc) ==
    LET i == CHOOSE i \in 1..Len(call.lookup) :
                 /\ \E k \in 1..Len(call.lookup[i][argname].defs) :
                        call.lookup[i][argname].defs[k].loc = loc
                 /\ \A j \in 1..(i - 1) : \A k \in 1..Len(call.lookup[j][argname].defs) :
                        call.lookup[j][argname].defs[k].loc # loc
        defs == call.lookup[i][argname].defs
        k == CHOOSE k \in 1..Len(defs) :
                 defs[k].loc = loc /\ \A m \in 1..(k - 1) : defs[m].loc # loc
    IN defs[k].func

\* C5: after all items were processed the list of every name holds no two
\* entries of the same location, holds an entry for every location of a
\* definition that was visible to some item, and the entry of a location is the
\* definition met first.
C5_Dedupe ==
    (IsReport /\ raised = "none")
    => /\ DOMAIN available \subseteq Processed
       /\ \A argname \in Processed :
           LET list == AvailableOf(argname)
           IN /\ \A i, j \in 1..Len(list) : i # j => list[i].bestrel # list[j].bestrel
              /\ {list[i].bestrel : i \in 1..Len(list)} = VisibleLocs(argname)
              /\ \A i \in 1..Len(list) :
                     list[i].fixturedef = FirstSeen(argname, list[i].bestrel)

\* C5 happens: two definitions of db at one location were visible, the report
\* holds one entry for it, made from the second of them in the registry
C5_Witness ==
    /\ IsReport
    /\ raised = "none"
    /\ \E i, j \in 1..Len(call.lookup) :
           /\ \E k \in 1..Len(call.lookup[i][db].defs) : call.lookup[i][db].defs[k].func = 3
           /\ \E k \in 1..Len(call.lookup[j][db].defs) : call.lookup[j][db].defs[k].func = 1
    /\ \E k \in 1..Len(AvailableOf(db)) :
           AvailableOf(db)[k].bestrel = L_conftest_1 /\ AvailableOf(db)[k].fixturedef = 3

\* getfixturedefs returned for some item and processed name ...
\* ... no definitions at all: None or an empty tuple
SomeZeroCandidates ==
    \E i \in 1..Len(call.lookup) : \E argname \in Processed :
        call.lookup[i][argname].defs = <<>>

\* ... None
SomeNone ==
    \E i \in 1..Len(call.lookup) : \E argname \in Processed :
        call.lookup[i][argname].is_none

\* C10 as stated: when the lookup reports zero definitions of a name for an
\* item, the collection stops with an assertion failure; the name is never
\* skipped for that item.
C10_ZeroCandidatesFatal ==
    (IsReport /\ SomeZeroCandidates) => raised = "AssertionError"

\* C10 as amended: the collection stops with an assertion failure, and prints
\* nothing, exactly when the lookup returns None; an empty tuple of definitions
\* is skipped for that item and the collection goes on with the other items.
C10_NoneFatalEmptySkipped ==
    IsReport
    => /\ raised = "AssertionError" <=> SomeNone
       /\ raised = "AssertionError" => tw = <<>> /\ available = <<>>
       /\ raised = "none" =>
              \A argname \in Processed :
                  (\E i \in 1..Len(call.lookup) : call.lookup[i][argname].defs # <<>>)
                  <=> AvailableOf(argname) # <<>>

\* C10 happens: the lookup returned an empty tuple for db for the first item,
\* definitions of db for the second, and the definitions were collected
C10_Witness ==
    /\ IsReport
    /\ Len(call.lookup) = 2
    /\ db \in Processed
    /\ call.lookup[1][db] = [is_none |-> FALSE, defs |-> <<>>]
    /\ call.lookup[2][db].defs # <<>>
    /\ raised = "none"
    /\ AvailableOf(db) # <<>>

(***************************************************************************)
(* Properties of the fixture graph and of its export.                      *)
(***************************************************************************)
\* save_fixture_graph was called
IsSave ==
    /\ op \in {"pytest_collection_modifyitems", "pytest_runtest_setup"}
    /\ call.fixture_graph
    /\ (op = "pytest_runtest_setup" => call.has_fixtureinfo)

\* the graph was built and handed to the export
IsBuilt == IsSave /\ raised = "none"

NodeIds == {n.id : n \in nodes}

\* C6: every edge of a graph built from a name2fixturedefs, also one that holds
\* definitions of "request" and definitions that depend on it, ends in a node
\* of the graph. Stated for the calls without func_args.
C6_GraphCompleteness ==
    (IsBuilt /\ call.func_args = <<>>)
    => \A e \in edges : e[2] \in NodeIds

\* the fixture names of func_args that have a definition
Requested ==
    {call.func_args[k] : k \in {j \in 1..Len(call.func_args) :
        /\ call.func_args[j] \in DOMAIN call.name2fixturedefs
        /\ call.name2fixturedefs[call.func_args[j]] # <<>>}}

\* db in /root/conftest.py, and client in /root/api/conftest.py depending on db
ScenarioRegistry ==
    RegistryOf(<<<<db, F_root_conftest, <<>>>>, <<client, F_api_conftest, <<db>>>>>>)

\* C7: with a non-empty func_args the graph is built and has exactly one root
\* node; the root has one edge to a node of each requested name that has a
\* definition, no other edge, and no edge enters the root; for the
\* registry of db and client and func_args = (client,) the graph has 3 nodes
\* and the 2 edges root -> client and client -> db.
C7_SyntheticRoot ==
    (/\ IsSave
     /\ call.func_args # <<>>
     /\ ~mkdir_recursive_raises(call.env.makedirs))
    => /\ raised = "none"
       /\ (call.func_args = <<client>> /\ call.name2fixturedefs = ScenarioRegistry)
            => /\ Cardinality(nodes) = 3
               /\ edges = {<<RootId, NodeId(_get_cluster_name(F_api_conftest, Cwd_root \o Slash), client)>>,
                           <<NodeId(_get_cluster_name(F_api_conftest, Cwd_root \o Slash), client),
                             NodeId(_get_cluster_name(F_root_conftest, Cwd_root \o Slash), db)>>}
       /\ Cardinality({n \in nodes : n.fillcolor = "red"}) = 1
       /\ \A name \in Requested :
              \E n \in nodes : n.label = name /\ n.fillcolor = "green" /\ <<RootId, n.id>> \in edges
       /\ \A e \in edges :
              /\ e[2] # RootId
              /\ e[1] = RootId
                   => \E n \in nodes : n.id = e[2] /\ n.fillcolor = "green" /\ n.label \in Requested

\* the path the export writes to, without extension
ExportPath == join(artifacts, call.filename)

\* the position of the first operation op_ in io, 0 when there is none
IoAt(op_) ==
    LET at == {i \in 1..Len(io) : io[i].op = op_}
    IN IF at = {} THEN 0 ELSE CHOOSE i \in at : \A j \in at : i <= j

HintPrinted ==
    \E i \in 1..Len(tw) :
        tw[i] = TwLine("You can convert it to a PNG using: dot -Tpng", ExportPath)

RenderedPrinted ==
    \E i \in 1..Len(tw) : tw[i] = TwLine("created", ExportPath \o Dot \o png)

\* C8: in every export the .dot file is written before the renderer is
\* attempted; when the renderer fails nothing is raised, the hint with the
\* manual command is printed and the .dot file is there; the "created" line of
\* the rendered file is printed only when the renderer succeeded.
C8_ExportOrder ==
    (IsSave /\ IoAt("render") > 0)
    => /\ IoAt("write") > 0
       /\ IoAt("write") < IoAt("render")
       /\ io[IoAt("write")].path = ExportPath \o dot_ext
       /\ (ExportPath \o dot_ext) \in written
       /\ call.env.render # "ok"
            => /\ raised = "none"
               /\ HintPrinted
               /\ ~RenderedPrinted
               /\ written = {ExportPath \o dot_ext}
       /\ RenderedPrinted => call.env.render = "ok"
       /\ call.env.render = "ok" => RenderedPrinted /\ ~HintPrinted

\* C8 happens: the renderer failed after the .dot file of a graph was written
C8_Witness ==
    /\ IsSave
    /\ call.env.render = "failed"
    /\ IoAt("render") > 0
    /\ nodes # {}
    /\ raised = "none"
    /\ HintPrinted
    /\ (ExportPath \o dot_ext) \in written

====
